---- MODULE Spec2Model ----
(***************************************************************************)
(* A model of PandocPilot: the plugin manager's dependency loader          *)
(* (pandocpilot.py), the orchestrator's start / stop / process life cycle, *)
(* the composed filter pipeline, and the built-in plugins of builtin.py    *)
(* (custom-command encoder / decoder, label table and label stack, link    *)
(* rewriting, the math renderer's request / response channel).             *)
(***************************************************************************)
EXTENDS Integers, Sequences, FiniteSets, TLC

(***************************************************************************)
(* Bounds of the model.                                                    *)
(***************************************************************************)
\* total number of requires entries over all manifests
MaxEdges == 3
\* number of discover_plugins calls in one process lifetime
MaxGen == 2
\* number of discover_plugins calls made directly on the manager
MaxApiDiscover == 1
\* number of documents one orchestrator processes
MaxDocs == 2

(***************************************************************************)
(* Names.  The three built-in plugins whose code objects register filters; *)
(* Ghost is a name that no manifest file carries.                          *)
(***************************************************************************)
Names == {"core", "label", "citation"}
Ghost == "ghost"
ReqNames == Names \cup {Ghost}

\* A Plugin object: Plugin has no __eq__, so `plugin in self.loaded` compares
\* identities; an object is the name together with the discovery that made it.
Objs == [name : Names, gen : 1..MaxGen]
NoPlugin == [name |-> "", gen |-> 0]

VARIABLES
    requires,     \* manifest: name -> list of required names (Plugin.requires)
    auto_load,    \* manifest: name -> BOOLEAN (Plugin.auto_load)
    order,        \* the order in which iterdir yields the manifests
    gen,          \* number of discover_plugins calls so far
    plugins,      \* PluginManager.plugins: name -> object, NoPlugin when absent
    loaded,       \* PluginManager.loaded
    loading,      \* PluginManager._loading
    code,         \* the objects whose Plugin.code is not None
    running,      \* PandocPilot.running
    pc,           \* position of the one thread of control
    op,           \* the top-level call being executed
    k,            \* start: index into plugins.items()
    stack,        \* the load_plugin frames, innermost last
    err,          \* how the last top-level call ended
    loadCount,    \* history: object -> number of load_internal runs
    enterCount,   \* history: object -> number of appends to _loading
    lastCall,     \* history: the last top-level load_plugin request
    macros,       \* Demacro.macros: macro name -> the object that defined it
    docNo,        \* number of documents whose processing has begun
    labelState,   \* label object -> its LabelPlugin fields labels, label_stack
    labelDoc,     \* history: label object, label -> document that saved it
    processors,   \* process: the composed list handed to applyJSONFilters
    custom_cmds,  \* CorePlugin.custom_cmds: command name -> [args, callback]
    macroBody,    \* the macro get_custom_command / get_custom_env returned
    use,          \* the document's use of the command: its actual arguments
    tree,         \* the converter's output tree, a list of block nodes
    calls,        \* history: the callback invocations of the decode filter
    cpc,          \* position of the encode / convert / decode run
    defect,       \* manifest: the one faulty reference of the plugin files
    labelOp,      \* history: the last label macro call and how it ended
    scopes,       \* history: @pushlabelstack calls still open in this pass
    link,         \* the reference link of the tree, before and after filters
    ext,          \* what the external processes answered for this document
    output,       \* what the last process call returned
    kt,           \* convert_latex: thread -> its position, request and reply
    kin,          \* the renderer's stdin: what was written, in order
    kout,         \* the renderer's stdout: response lines not yet read
    proc,         \* KaTeXJSONPlugin.proc of the renderer object of discovery g
    macro_files,  \* manifest: name -> the definitions its macro files make
    plugin_macros \* Plugin.macros of every object: items (object, name, entry)

vars == << requires, auto_load, order, gen, plugins, loaded, loading, code,
           running, pc, op, k, stack, err, loadCount, enterCount, lastCall,
           macros, docNo, labelState, labelDoc, processors, custom_cmds,
           macroBody, use, tree, calls, cpc, defect, labelOp, scopes, link,
           ext, output, kt, kin, kout, proc, macro_files, plugin_macros >>

(***************************************************************************)
(* Sequence helpers.                                                       *)
(***************************************************************************)
Range(s) == {s[i] : i \in 1..Len(s)}

InSeq(x, s) == \E i \in 1..Len(s) : s[i] = x

\* list.remove(x): drops the first occurrence
RemoveFirst(s, x) ==
    LET i == CHOOSE j \in 1..Len(s) : s[j] = x /\ \A m \in 1..(j-1) : s[m] # x
    IN  SubSeq(s, 1, i-1) \o SubSeq(s, i+1, Len(s))

IndexOf(s, x) == CHOOSE j \in 1..Len(s) : s[j] = x /\ \A m \in 1..(j-1) : s[m] # x

SeqsUpTo(S, n) == UNION {[1..m -> S] : m \in 0..n}

Distinct(s) == \A i, j \in 1..Len(s) : i # j => s[i] # s[j]

(***************************************************************************)
(* Manifests.                                                              *)
(***************************************************************************)
ReqLists == {s \in SeqsUpTo(ReqNames, MaxEdges) : Distinct(s)}

RECURSIVE SumLen(_, _)
SumLen(g, S) ==
    IF S = {} THEN 0
    ELSE LET n == CHOOSE x \in S : TRUE IN Len(g[n]) + SumLen(g, S \ {n})

Graphs == {g \in [Names -> ReqLists] : SumLen(g, Names) <= MaxEdges}

DiscoveryOrders == {s \in [1..Cardinality(Names) -> Names] : Distinct(s)}

(***************************************************************************)
(* Plugin.load_internal, as far as the loader can observe it.              *)
(***************************************************************************)
\* The plugins whose code object a plugin's get_macros calls into:
\* CitationPlugin.get_macros reads manager.plugins['core'].code and calls
\* get_custom_command on it.
CodeNeeded(n) == IF n = "citation" THEN {"core"} ELSE {}

\* get_macros (load_internal line 83) raises unless every plugin it calls
\* into is discovered and has its code object
GetMacrosOk(p, plug, cd) ==
    \A c \in CodeNeeded(p.name) : plug[c] # NoPlugin /\ plug[c] \in cd

(***************************************************************************)
(* Faulty references of the plugin files.  A manifest may list a macro     *)
(* file that is not in the plugin directory, or name a code object that    *)
(* its module lacks (missing) or that is no PluginCode class (mismatch).   *)
(***************************************************************************)
DefectKinds == {"macro_file", "code_missing", "code_mismatch"}
NoDefect == [kind |-> "none", name |-> ""]
Defects == {NoDefect} \cup [kind : DefectKinds, name : Names]

\* discover_plugins, lines 141-146: ValueError for a macro file that cannot
\* be located
MacroFilesOk == defect.kind # "macro_file"

\* a load step that accepts every code reference
CodeObjectOkAlways(p) == TRUE

\* load_internal, lines 75-83: the code object is made unless the module
\* lacks the name (ValueError, line 80) or the name is no PluginCode class
\* (self.code stays None and line 83 raises AttributeError)
CodeObjectOk(p) ==
    ~(defect.kind \in {"code_missing", "code_mismatch"} /\ defect.name = p.name)

(***************************************************************************)
(* Demacro.macros, the shared macro table, and what a load step does to    *)
(* it.  An entry is named by the plugin object whose load step made it:    *)
(* two entries are the identical object exactly when they were made by one *)
(* definition.                                                             *)
(***************************************************************************)
\* one macro name of each get_macros dictionary
MacrosOf(n) ==
    CASE n = "core" -> {"span"}
      [] n = "label" -> {"@savelabel"}
      [] n = "citation" -> {"fullcite"}
      [] OTHER -> {}

\* the names a macro file may define: a name of the core dictionary and a
\* name no get_macros dictionary has
FileMacroNames == {"span", "title"}

MacroNames == UNION {MacrosOf(n) : n \in Names} \cup FileMacroNames

\* load_internal line 83: demacro.add_macros(self.code.get_macros()); an
\* entry of the table is named by the object whose get_macros made it
AddMacros(m, p) == [x \in MacroNames |-> IF x \in MacrosOf(p.name) THEN p ELSE m[x]]

\* A definition of a macro file: \newcommand / \renewcommand of name (from
\* is empty), or \let\name\from, which stores the entry of from under name
\* (CorePlugin._let: macros[cmd_new.data] = macros[cmd_old.data]).
NewDef(x) == [name |-> x, from |-> ""]
LetDef(x, y) == [name |-> x, from |-> y]
NoMacroFiles == [n \in Names |-> << >>]
MacroFileChoices ==
    {<< >>, << NewDef("span") >>, << NewDef("title") >>,
     << LetDef("title", "span") >>, << LetDef("title", "fullcite") >>}

\* load_internal lines 86-88: the macro files are read in listed order;
\* \let of a name the table lacks raises (builtin.py line 161) and leaves
\* what was defined before it in the table
RECURSIVE ReadMacroFiles(_, _, _)
ReadMacroFiles(m, p, ds) ==
    IF ds = << >> THEN [ok |-> TRUE, table |-> m]
    ELSE LET d == Head(ds)
             e == IF d.from = "" THEN p ELSE m[d.from]
         IN  IF e = NoPlugin THEN [ok |-> FALSE, table |-> m]
             ELSE ReadMacroFiles([m EXCEPT ![d.name] = e], p, Tail(ds))

\* lines 83-88 for the object p on the table m
LoadMacros(m, p) == ReadMacroFiles(AddMacros(m, p), p, macro_files[p.name])

\* what one entry looks like: the name of the plugin that made it, whatever
\* the discovery its object came from
Looks(e) == e.name

\* a diff that compares entries by what they look like
MacroDiffByValue(old, new) ==
    {<< x, new[x] >> : x \in {y \in MacroNames :
        new[y] # NoPlugin /\ (old[y] = NoPlugin \/ Looks(new[y]) # Looks(old[y]))}}

\* load_internal lines 91-95: name not in old_macros, or data is not
\* old_macros[name]; the dictionary self.macros as its set of items
MacroDiff(old, new) ==
    {<< x, new[x] >> : x \in {y \in MacroNames :
        new[y] # NoPlugin /\ (old[y] = NoPlugin \/ new[y] # old[y])}}

\* Plugin.macros of the object p, as its set of items (name, entry)
Contribution(pm, p) == {<< t[2], t[3] >> : t \in {u \in pm : u[1] = p}}

\* load_internal lines 91-95: self.macros = {} and then the items of the diff
SetContribution(pm, p, items) ==
    {u \in pm : u[1] # p} \cup {<< p, it[1], it[2] >> : it \in items}

(***************************************************************************)
(* PluginManager.load_plugin.  A frame is [p, i]: the plugin being loaded  *)
(* and the index of the next entry of its requires list.  A loader state   *)
(* is [loaded, loading, stack, out]; out is "run" while frames remain,     *)
(* "ok" when the outermost call has returned, otherwise the error raised.  *)
(***************************************************************************)
\* Enter without lines 152-153 (no early return for a loaded plugin)
EnterWithoutLoadedCheck(n, L, G, S) ==
    IF plugins[n] = NoPlugin
    THEN [loaded |-> L, loading |-> G, stack |-> << >>, out |-> "unresolved"]
    ELSE LET p == plugins[n] IN
         IF InSeq(p, G)
         THEN [loaded |-> L, loading |-> G, stack |-> << >>, out |-> "circular"]
         ELSE [loaded |-> L, loading |-> Append(G, p),
               stack |-> Append(S, [p |-> p, i |-> 1]), out |-> "run"]

\* Enter with lines 155-156 returning instead of raising
EnterIgnoringInProgress(n, L, G, S) ==
    IF plugins[n] = NoPlugin
    THEN [loaded |-> L, loading |-> G, stack |-> << >>, out |-> "unresolved"]
    ELSE LET p == plugins[n] IN
         IF InSeq(p, L) \/ InSeq(p, G)
         THEN [loaded |-> L, loading |-> G, stack |-> S,
               out |-> IF S = << >> THEN "ok" ELSE "run"]
         ELSE [loaded |-> L, loading |-> Append(G, p),
               stack |-> Append(S, [p |-> p, i |-> 1]), out |-> "run"]

\* lines 151-158: the entry of load_plugin(n) above the frames S
Enter(n, L, G, S) ==
    IF plugins[n] = NoPlugin
    THEN [loaded |-> L, loading |-> G, stack |-> << >>, out |-> "unresolved"]
    ELSE LET p == plugins[n] IN
         IF InSeq(p, L)
         THEN [loaded |-> L, loading |-> G, stack |-> S,
               out |-> IF S = << >> THEN "ok" ELSE "run"]
         ELSE IF InSeq(p, G)
         THEN [loaded |-> L, loading |-> G, stack |-> << >>, out |-> "circular"]
         ELSE [loaded |-> L, loading |-> Append(G, p),
               stack |-> Append(S, [p |-> p, i |-> 1]), out |-> "run"]

\* the for loop of line 161 stopping one entry early
HasNextReqOffByOne(f) == f.i < Len(requires[f.p.name])

\* line 161: the for loop over plugin.requires has entries left
HasNextReq(f) == f.i <= Len(requires[f.p.name])

\* lines 161-164: one iteration of the for loop of the innermost frame
ReqStep(L, G, S) ==
    LET f    == S[Len(S)]
        req  == requires[f.p.name][f.i]
        S1   == [S EXCEPT ![Len(S)].i = f.i + 1]
    IN  IF req \notin Names \/ plugins[req] = NoPlugin
        THEN [loaded |-> L, loading |-> G, stack |-> << >>, out |-> "unresolved"]
        ELSE IF InSeq(plugins[req], L)
        THEN [loaded |-> L, loading |-> G, stack |-> S1, out |-> "run"]
        ELSE Enter(req, L, G, S1)

\* lines 167-169: load_internal, _loading.remove, loaded.append, return
Finish(L, G, S) ==
    LET f  == S[Len(S)]
        S1 == SubSeq(S, 1, Len(S) - 1)
    IN  IF \/ ~CodeObjectOk(f.p)
           \/ ~GetMacrosOk(f.p, plugins, code)
           \/ ~LoadMacros(macros, f.p).ok
        THEN [loaded |-> L, loading |-> G, stack |-> << >>, out |-> "load"]
        ELSE [loaded |-> Append(L, f.p), loading |-> RemoveFirst(G, f.p),
              stack |-> S1, out |-> IF S1 = << >> THEN "ok" ELSE "run"]

(***************************************************************************)
(* The filter entries of the built-in code objects and the composition of  *)
(* process.                                                                *)
(***************************************************************************)
\* the citation filter registered at the priority of the others
PandocProcessorsOnePriority(p) ==
    CASE p.name = "core" ->
           << [plugin |-> p, fn |-> "_process_custom_envs", prio |-> 0] >>
      [] p.name = "label" ->
           << [plugin |-> p, fn |-> "_process_refs", prio |-> 0] >>
      [] p.name = "citation" ->
           << [plugin |-> p, fn |-> "_process_citations", prio |-> 0] >>
      [] OTHER -> << >>

\* PluginCode.pandoc_processors as each __init__ leaves it
PandocProcessors(p) ==
    CASE p.name = "core" ->
           << [plugin |-> p, fn |-> "_process_custom_envs", prio |-> 0] >>
      [] p.name = "label" ->
           << [plugin |-> p, fn |-> "_process_refs", prio |-> 0] >>
      [] p.name = "citation" ->
           << [plugin |-> p, fn |-> "_process_citations", prio |-> -100] >>
      [] OTHER -> << >>

\* lines 243-247: processors.extend over the loaded plugins that have code
RECURSIVE Collect(_, _)
Collect(L, cd) ==
    IF L = << >> THEN << >>
    ELSE (IF Head(L) \in cd THEN PandocProcessors(Head(L)) ELSE << >>)
         \o Collect(Tail(L), cd)

\* an unstable placement: before the entries of equal key
InsertBeforeEqualKeys(e, s) ==
    LET n == Cardinality({i \in 1..Len(s) : s[i].prio < e.prio})
    IN  SubSeq(s, 1, n) \o << e >> \o SubSeq(s, n + 1, Len(s))

\* the place sorted() gives e in an already sorted list: behind every entry
\* whose key is not greater (stable)
InsertByKey(e, s) ==
    LET n == Cardinality({i \in 1..Len(s) : s[i].prio <= e.prio})
    IN  SubSeq(s, 1, n) \o << e >> \o SubSeq(s, n + 1, Len(s))

\* line 249: sorted(processors, key=lambda p: p[1])
RECURSIVE SortByPriority(_)
SortByPriority(s) ==
    IF s = << >> THEN << >>
    ELSE InsertByKey(s[Len(s)], SortByPriority(SubSeq(s, 1, Len(s) - 1)))

(***************************************************************************)
(* The label plugin's state.                                               *)
(***************************************************************************)
LabelObjs == {o \in Objs : o.name = "label"}
LabelIds == {"sec:a", "sec:b"}
NoNum == "-"
Nums == {"1", "2"}
NoEntry == [node |-> "None", num |-> NoNum]

\* LabelPlugin.__init__, lines 232-233
NewLabelState == [labels |-> [l \in LabelIds |-> NoNum], label_stack |-> << NoEntry >>]

\* a reset that leaves the stack as the last document left it
LabelResetNothing(st) == st

\* LabelPlugin.reset, lines 243-244
LabelReset(st) == [st EXCEPT !.label_stack = << NoEntry >>]

\* process lines 233-235: reset() of the code object of every loaded plugin
ResetAll(ls, L, cd) ==
    [o \in LabelObjs |-> IF InSeq(o, L) /\ o \in cd THEN LabelReset(ls[o]) ELSE ls[o]]

\* _save_label, lines 290-293
SaveLabelInto(st, l, num) == [st EXCEPT !.labels[l] = num]

(***************************************************************************)
(* The custom-command encoder and decoder of CorePlugin.                   *)
(***************************************************************************)
\* arguments a registered command declares, words of one actual argument
MaxArgs == 2
MaxWords == 2

INTERRUPT == "@PANDOCINTERRUPT"
CmdNames == {"note", "fullcite"}
Words == {"a", "b"}
\* the texts an actual argument may have: no word twice
ArgTexts == {a \in SeqsUpTo(Words, MaxWords) : Distinct(a)}
Forms == {"block", "inline", "env"}
\* what a callback hands back: a node (_html, _raw_html), a list of nodes, an
\* empty list, or None (_insert_citation without a matching reference)
RetKinds == {"node", "list", "empty", "none"}

NoCmd == [args |-> -1, callback |-> ""]
NoBody == [cmd |-> "", form |-> "", args |-> 0, wrap |-> "", units |-> << >>]
NoUse == [argv |-> << >>, keep |-> FALSE]

\* a node of the converter's tree: {'t': t, 'c': ...}
Node(t, x, c) == [t |-> t, s |-> x, c |-> c]
Str(w) == Node("Str", w, << >>)
Space == Node("Space", "", << >>)

\* the pieces of a macro body: literal text, white space, parameter #i
Text(w) == [k |-> "text", s |-> w, i |-> 0]
Sp == [k |-> "sp", s |-> "", i |-> 0]
Param(i) == [k |-> "param", s |-> "", i |-> i]

\* line 55: {X #i}
InlineArgUnit(i) == << Text("X"), Sp, Param(i) >>

\* line 57: \item #i, followed by a blank
BlockArgUnit(i) == << Sp, Param(i), Sp >>

\* _custom_command_body, lines 43-59: the wrapper and its units, sentinel
\* first, command name second, then one unit per argument
CustomCommandBody(cmd, args, inline) ==
    IF inline
    THEN [wrap |-> "Strong",
          units |-> << << Text(INTERRUPT) >>, << Text(cmd) >> >>
                    \o [i \in 1..args |-> InlineArgUnit(i)]]
    ELSE [wrap |-> "BulletList",
          units |-> << << Sp, Text(INTERRUPT), Sp >>, << Sp, Text(cmd), Sp >> >>
                    \o [i \in 1..args |-> BlockArgUnit(i)]]

\* get_custom_command, lines 61-66: the macro returned
CustomCommandMacro(cmd, inline, args) ==
    LET b == CustomCommandBody(cmd, args, inline)
    IN  [cmd |-> cmd, form |-> IF inline THEN "inline" ELSE "block",
         args |-> args, wrap |-> b.wrap, units |-> b.units]

\* get_custom_env, lines 68-78: the body ends in an \item that the content
\* of the environment follows; the content is parameter args + 1 here
CustomEnvMacro(env, args) ==
    LET b == CustomCommandBody(env, args, FALSE)
    IN  [cmd |-> env, form |-> "env", args |-> args, wrap |-> b.wrap,
         units |-> Append(b.units, << Param(args + 1) >>)]

\* the number of actual arguments a use of the macro supplies
Supplied(m) == IF m.form = "env" THEN m.args + 1 ELSE m.args

\* lines 65 and 76: the entry of custom_cmds
CustomCmdEntry(m, callback) == [args |-> Supplied(m), callback |-> callback]

RECURSIVE Flatten(_)
Flatten(ss) == IF ss = << >> THEN << >> ELSE Head(ss) \o Flatten(Tail(ss))

\* the text of an actual argument: its words, blanks between them
ArgTokens(ws) ==
    Flatten([i \in 1..Len(ws) |-> IF i = 1 THEN << Text(ws[i]) >>
                                    ELSE << Sp, Text(ws[i]) >>])

\* macro expansion: every parameter replaced by the actual argument
ExpandUnit(u, argv) ==
    Flatten([j \in 1..Len(u) |-> IF u[j].k = "param" THEN ArgTokens(argv[u[j].i])
                                   ELSE << u[j] >>])

\* the converter's reading of running text: runs of white space are one
\* Space, none at the start; one at the end of a braced group may stay
RECURSIVE Squeeze(_, _)
Squeeze(ts, afterSpace) ==
    IF ts = << >> THEN << >>
    ELSE IF Head(ts).k = "sp"
         THEN (IF afterSpace THEN << >> ELSE << Space >>) \o Squeeze(Tail(ts), TRUE)
         ELSE << Str(Head(ts).s) >> \o Squeeze(Tail(ts), FALSE)

DropLastSpace(xs) ==
    IF xs # << >> /\ xs[Len(xs)].t = "Space" THEN SubSeq(xs, 1, Len(xs) - 1) ELSE xs

Inlines(ts, keep) ==
    IF keep THEN Squeeze(ts, TRUE) ELSE DropLastSpace(Squeeze(ts, TRUE))

\* a list item is a list of blocks: none when it has no text
Item(xs) == Node("Item", "", IF xs = << >> THEN << >> ELSE << Node("Plain", "", xs) >>)

\* the converter's node for the expanded macro: a bullet list of items, or
\* a bold span of braced groups
ConvertWrapper(m, argv, keep) ==
    Node(m.wrap, "",
         [i \in 1..Len(m.units) |->
             IF m.wrap = "Strong"
             THEN Node("Span", "", Inlines(ExpandUnit(m.units[i], argv), keep))
             ELSE Item(Inlines(ExpandUnit(m.units[i], argv), FALSE))])

\* the document around the use of the command
Document(w) ==
    IF w.t = "Strong"
    THEN << Node("Para", "", << Str("a"), Space, w, Space, Str("b") >>) >>
    ELSE << Node("Para", "", << Str("a") >>), w, Node("Para", "", << Str("b") >>) >>

\* pandocfilters.stringify: the text of the Str and Space nodes, in order
RECURSIVE StringifyAll(_)
Stringify(n) ==
    IF n.t = "Str" THEN << n.s >>
    ELSE IF n.t = "Space" THEN << " " >>
    ELSE StringifyAll(n.c)

StringifyAll(xs) ==
    IF xs = << >> THEN << >> ELSE Stringify(Head(xs)) \o StringifyAll(Tail(xs))

\* the marker pair left in place: nothing deleted
StripPadNothing(v) == v

\* line 38: del v['c'][1][:2]
StripPad(v) == [v EXCEPT !.c = SubSeq(v.c, 3, Len(v.c))]

\* what the callback of a command returns for its arguments; "none" is None
CallbackReturn(kind, args) ==
    CASE kind = "node" -> << Node("Div", "", args) >>
      [] kind = "list" -> << Node("RawBlock", "html", << >>), Node("Div", "", args) >>
      [] OTHER -> << >>

\* a decode filter that passes over a wrapper whose name it does not know
ProcessCustomEnvsSkippingUnknown(n, cmds) ==
    LET pass == [act |-> "pass", kept |-> n, nodes |-> << >>, calls |-> << >>]
        fail == [act |-> "error", kept |-> n, nodes |-> << >>, calls |-> << >>]
    IN  IF n.t \notin {"BulletList", "Strong"} THEN pass
        ELSE IF n.c = << >> THEN fail
        ELSE IF Stringify(n.c[1]) # << INTERRUPT >> THEN pass
        ELSE IF Len(n.c) < 2 THEN fail
        ELSE LET name == Stringify(n.c[2])
                 known == {c \in CmdNames : << c >> = name /\ cmds[c] # NoCmd}
             IN  IF known = {} THEN pass
                 ELSE LET cmd  == cmds[CHOOSE c \in known : TRUE]
                          args == [i \in 1..(Len(n.c) - 2) |->
                                      IF n.t = "Strong" THEN StripPad(n.c[i + 2])
                                      ELSE n.c[i + 2]]
                          call == [name |-> name, args |-> args]
                          left == [n EXCEPT !.c = SubSeq(n.c, 1, 2) \o args]
                      IN  IF cmd.callback = "none"
                          THEN [act |-> "keep", kept |-> left, nodes |-> << >>,
                                calls |-> << call >>]
                          ELSE [act |-> "replace", kept |-> n,
                                nodes |-> CallbackReturn(cmd.callback, args),
                                calls |-> << call >>]

\* _process_custom_envs, lines 28-40, for one node: act is "pass" (the filter
\* returns None without a call), "keep" (the callback returned None),
\* "replace" or "error"; kept is the node as the filter leaves it
ProcessCustomEnvs(n, cmds) ==
    LET pass == [act |-> "pass", kept |-> n, nodes |-> << >>, calls |-> << >>]
        fail == [act |-> "error", kept |-> n, nodes |-> << >>, calls |-> << >>]
    IN  IF n.t \notin {"BulletList", "Strong"} THEN pass
        ELSE IF n.c = << >> THEN fail
        ELSE IF Stringify(n.c[1]) # << INTERRUPT >> THEN pass
        ELSE IF Len(n.c) < 2 THEN fail
        ELSE LET name == Stringify(n.c[2])
                 known == {c \in CmdNames : << c >> = name /\ cmds[c] # NoCmd}
             IN  IF known = {} THEN fail
                 ELSE LET cmd  == cmds[CHOOSE c \in known : TRUE]
                          args == [i \in 1..(Len(n.c) - 2) |->
                                      IF n.t = "Strong" THEN StripPad(n.c[i + 2])
                                      ELSE n.c[i + 2]]
                          call == [name |-> name, args |-> args]
                          left == [n EXCEPT !.c = SubSeq(n.c, 1, 2) \o args]
                      IN  IF cmd.callback = "none"
                          THEN [act |-> "keep", kept |-> left, nodes |-> << >>,
                                calls |-> << call >>]
                          ELSE [act |-> "replace", kept |-> n,
                                nodes |-> CallbackReturn(cmd.callback, args),
                                calls |-> << call >>]

\* pandocfilters.walk with the decode filter: a node for which the filter
\* returns None stays and its children are walked; a returned node or list
\* takes its place and is walked in turn
RECURSIVE Walk(_, _)
Walk(xs, cmds) ==
    IF xs = << >> THEN [nodes |-> << >>, calls |-> << >>, ok |-> TRUE]
    ELSE LET r == ProcessCustomEnvs(Head(xs), cmds) IN
         IF r.act = "error" THEN [nodes |-> xs, calls |-> << >>, ok |-> FALSE]
         ELSE LET sub  == IF r.act = "replace" THEN Walk(r.nodes, cmds)
                          ELSE Walk(r.kept.c, cmds)
                  here == IF r.act = "replace" THEN sub.nodes
                          ELSE << [r.kept EXCEPT !.c = sub.nodes] >>
                  rest == Walk(Tail(xs), cmds)
              IN  [nodes |-> here \o rest.nodes,
                   calls |-> r.calls \o sub.calls \o rest.calls,
                   ok |-> sub.ok /\ rest.ok]

(***************************************************************************)
(* The label stack of LabelPlugin: the macros @pushlabelstack,             *)
(* @poplabelstack, @labeltarget and @wraptarget.                           *)
(***************************************************************************)
\* label scopes one document has open at a time
MaxDepth == 2

\* the last label macro call: which, what it returned ("error" when it
\* raised), and the value of scopes it found
NoLabelOp == [op |-> "none", out |-> "", open |-> 0]

\* scopes counts the pushes still open; it stays at -1 once a pop came
\* without an open push
Opened(n) == IF n < 0 THEN -1 ELSE n + 1
Closed(n) == IF n <= 0 THEN -1 ELSE n - 1

\* _push_label_stack, line 254
PushLabelStack(st) == [st EXCEPT !.label_stack = Append(@, NoEntry)]

\* _pop_label_stack, line 257, on a list that is not empty
PopLabelStack(st) == [st EXCEPT !.label_stack = SubSeq(@, 1, Len(@) - 1)]

\* _label_target, line 261, on a list that is not empty
LabelTarget(st, num) ==
    [st EXCEPT !.label_stack[Len(st.label_stack)] = [node |-> "target", num |-> num]]

RECURSIVE LatestValid(_, _)
\* the search looking at the top entry only
LatestValidTopOnly(stk, ind) ==
    IF ind > 0 /\ stk[ind] # NoEntry THEN ind ELSE 0

\* _wrap_target, lines 270-274: the while loop from the top of the stack
\* down; the position of the entry found, 0 when every entry is None
LatestValid(stk, ind) ==
    IF ind = 0 THEN 0
    ELSE IF stk[ind] # NoEntry THEN ind
    ELSE LatestValid(stk, ind - 1)

\* _wrap_target, lines 266-288: the state left and the text returned
WrapTarget(st) ==
    LET ind == LatestValid(st.label_stack, Len(st.label_stack)) IN
    IF ind = 0 THEN [st |-> st, out |-> ""]
    ELSE [st |-> [st EXCEPT !.label_stack[ind].node = "spanned"],
          out |-> st.label_stack[ind].num]

(***************************************************************************)
(* KaTeXJSONPlugin.convert_latex called by several threads on one plugin   *)
(* object: one renderer process, one stdin, one stdout.                    *)
(***************************************************************************)
\* threads that share the adapter, calls each of them makes
MaxThreads == 2
MaxCalls == 2

Threads == 1..MaxThreads

\* what is written to stdin: the request of thread t is t, the newline is
\* Newline; what is read from stdout: the output for request t is t, an
\* error object is ErrorObject
Newline == 0
ErrorObject == 0
NoReply == -1

\* a thread outside convert_latex that has made no call yet
NewCall == [pc |-> "idle", got |-> NoReply, n |-> 0]

\* the first line of the bytes the renderer has received, and what follows
FirstLine(bytes) ==
    LET i == CHOOSE j \in 1..Len(bytes) :
                 bytes[j] = Newline /\ \A m \in 1..(j - 1) : bytes[m] # Newline
    IN  [line |-> SubSeq(bytes, 1, i - 1), rest |-> SubSeq(bytes, i + 1, Len(bytes))]

\* the renderer's answer to one line: the output for a line that is one
\* request, an error object for any other line
Answer(line) == IF Len(line) = 1 THEN line[1] ELSE ErrorObject

(***************************************************************************)
(* The link-rewriting filter of LabelPlugin and the external processes of  *)
(* one process call.                                                       *)
(***************************************************************************)
\* the anchors a document refers to: the labels, and one never saved
Anchors == LabelIds \cup {"sec:x"}

\* the text the converter gives the link of \ref{r}
PandocText(r) ==
    CASE r = "sec:a" -> "[sec:a]"
      [] r = "sec:b" -> "[sec:b]"
      [] OTHER -> "[sec:x]"

\* a Link node, value = [[id, classes, kvs], inlines, target]
NoRef == [kvs |-> << >>, text |-> << >>, target |-> ""]
RefLink(r, tx) ==
    [kvs |-> << << "reference-type", "ref" >>, << "reference", r >> >>,
     text |-> << Str(tx) >>, target |-> r]
PlainLink == [kvs |-> << >>, text |-> << Str("a") >>, target |-> "url"]
Links == {RefLink(r, PandocText(r)) : r \in Anchors}
         \cup {RefLink(r, r) : r \in Anchors} \cup {PlainLink}
NoLink == [in |-> NoRef, out |-> NoRef]

\* self.labels.get(ref, ref), line 240
LabelsGet(labels, ref) ==
    IF ref \in DOMAIN labels /\ labels[ref] # NoNum THEN labels[ref] ELSE ref

\* a filter that leaves the link of an unknown anchor alone
ProcessRefsKnownOnly(l, labels) ==
    IF Len(l.kvs) = 2 /\ LabelsGet(labels, l.kvs[2][2]) # l.kvs[2][2]
    THEN [l EXCEPT !.text[1].s = LabelsGet(labels, l.kvs[2][2])]
    ELSE l

\* LabelPlugin._process_refs, lines 235-241, on a Link whose text is not
\* empty
ProcessRefs(l, labels) ==
    IF Len(l.kvs) = 2
    THEN [l EXCEPT !.text[1].s = LabelsGet(labels, l.kvs[2][2])]
    ELSE l

\* applyJSONFilters, line 251, as far as the link is concerned: every
\* _process_refs entry of the composed list rewrites it in turn
RECURSIVE ApplyRefs(_, _, _)
ApplyRefs(procs, l, ls) ==
    IF procs = << >> THEN l
    ELSE ApplyRefs(Tail(procs),
                   IF Head(procs).fn = "_process_refs"
                   THEN ProcessRefs(l, ls[Head(procs).plugin].labels)
                   ELSE l,
                   ls)

\* how a run of the structural converter ends, what the math renderer
\* answers (none: the tree has no Math node)
Exits == {"ok", "fail"}
MathReplies == {"none", "output", "error"}
NoExt == [tex |-> "none", math |-> "none", html |-> "none"]
NoOutput == "none"

\* _convert, lines 19-24: stdout is returned whatever the exit status; a
\* converter that exits abnormally has written nothing
ConvertOut(exit, full) == IF exit = "ok" THEN full ELSE "empty"

(***************************************************************************)
(* The renderer plugin: a manifest named katex whose code reference is     *)
(* KaTeXJSONPlugin.  Its constructor starts the katex_json_cli subprocess, *)
(* its finalize terminates it and waits for it.                            *)
(***************************************************************************)
\* bound on the discoveries of the renderer's manifest
MaxRenderers == 3

Katex == "katex"
KatexObjs == [name : {Katex}, gen : 1..MaxRenderers]

\* KaTeXJSONPlugin.__init__, line 335: Popen
Popen(pr, o) == [pr EXCEPT ![o.gen] = "running"]

\* KaTeXJSONPlugin.finalize, lines 371-373: terminate, then wait; both are
\* harmless on a subprocess that has ended already
Finalize(pr, o) == [pr EXCEPT ![o.gen] = "terminated"]

\* the loop of stop, lines 219-221: only members of loaded, and of those
\* only the ones that have a code object
RECURSIVE FinalizeLoaded(_, _)
FinalizeLoaded(pr, L) ==
    IF L = << >> THEN pr
    ELSE LET o == Head(L) IN
         FinalizeLoaded(IF o \in KatexObjs /\ pr[o.gen] # "none"
                        THEN Finalize(pr, o) ELSE pr, Tail(L))

\* load_plugin for the renderer plugin object o, which requires nothing:
\* lines 152-158, then load_internal.  Line 78 constructs the code object;
\* reading the plugin's macro files (lines 86-88) may raise after that, and
\* then neither line 168 nor line 169 runs.
LoadRenderer(o, L, G, pr, fails) ==
    IF InSeq(o, L)
    THEN [loaded |-> L, loading |-> G, proc |-> pr, out |-> "ok"]
    ELSE IF InSeq(o, G)
    THEN [loaded |-> L, loading |-> G, proc |-> pr, out |-> "circular"]
    ELSE IF fails
    THEN [loaded |-> L, loading |-> Append(G, o), proc |-> Popen(pr, o),
          out |-> "load"]
    ELSE [loaded |-> Append(L, o), loading |-> G, proc |-> Popen(pr, o),
          out |-> "ok"]

(***************************************************************************)
(* Actions.                                                                *)
(***************************************************************************)
manifestVars == << requires, auto_load, order, defect, macro_files >>
katexVars == << kt, kin, kout, proc >>
labelVars == << labelOp, scopes >>
runVars == << link, ext, output >>
codecVars == << custom_cmds, macroBody, use, tree, calls, cpc >>
histVars == << loadCount, enterCount, lastCall >>
docVars == << docNo, labelState, labelDoc, processors >>

Bump(f, S) == [o \in DOMAIN f |-> IF o \in S THEN f[o] + 1 ELSE f[o]]

\* what a loader step leaves behind: the manager's lists, and where control
\* goes (an exception propagates to the top: nothing catches it)
Resume(r) ==
    /\ loaded' = r.loaded
    /\ loading' = r.loading
    /\ stack' = r.stack
    /\ enterCount' = Bump(enterCount, Range(r.loading) \ Range(loading))
    /\ lastCall' = [lastCall EXCEPT !.out = r.out]
    /\ IF r.out = "run" THEN pc' = "load" /\ UNCHANGED << op, err >>
       ELSE IF r.out = "ok"
       THEN IF op = "api" THEN pc' = "idle" /\ op' = "none" /\ err' = "none"
            ELSE pc' = "start" /\ UNCHANGED << op, err >>
       ELSE pc' = "idle" /\ op' = "none" /\ err' = r.out

\* a request PluginManager.load_plugin(n, demacro) from outside
ApiLoad(n) ==
    /\ pc = "idle"
    /\ gen > 0
    /\ LET r == Enter(n, loaded, loading, << >>) IN
       /\ loaded' = r.loaded
       /\ loading' = r.loading
       /\ stack' = r.stack
       /\ enterCount' = Bump(enterCount, Range(r.loading) \ Range(loading))
       /\ lastCall' = [name |-> n, gen |-> gen, out |-> r.out]
       /\ IF r.out = "run" THEN pc' = "load" /\ op' = "api" /\ UNCHANGED err
          ELSE pc' = "idle" /\ op' = "none"
               /\ err' = IF r.out = "ok" THEN "none" ELSE r.out
    /\ UNCHANGED << codecVars, katexVars, labelVars, runVars, manifestVars, gen, plugins, code, macros, plugin_macros, running, k,
                    loadCount, docVars >>

\* lines 161-164
LoadReq ==
    /\ pc = "load"
    /\ HasNextReq(stack[Len(stack)])
    /\ Resume(ReqStep(loaded, loading, stack))
    /\ UNCHANGED << codecVars, katexVars, labelVars, runVars, manifestVars, gen, plugins, code, macros, plugin_macros, running, k,
                    loadCount, docVars >>

\* lines 167-169, with load_internal: the code object is made (line 78)
\* before get_macros can raise (line 83)
LoadFinish ==
    /\ pc = "load"
    /\ ~HasNextReq(stack[Len(stack)])
    /\ LET p == stack[Len(stack)].p
           r == Finish(loaded, loading, stack)
       IN  /\ Resume(r)
           /\ loadCount' = Bump(loadCount, {p})
           /\ code' = IF CodeObjectOk(p) THEN code \cup {p} ELSE code
           /\ macros' = IF CodeObjectOk(p) /\ GetMacrosOk(p, plugins, code)
                        THEN LoadMacros(macros, p).table ELSE macros
           /\ plugin_macros' = IF r.out = "load" THEN plugin_macros
                               ELSE SetContribution(plugin_macros, p,
                                                    MacroDiff(macros, macros'))
           /\ labelState' = IF p \in LabelObjs /\ p \notin code /\ CodeObjectOk(p)
                            THEN [labelState EXCEPT ![p] = NewLabelState]
                            ELSE labelState
    /\ UNCHANGED << codecVars, katexVars, labelVars, runVars, manifestVars, gen, plugins, running, k, docNo, labelDoc,
                    processors >>

\* PluginManager.discover_plugins, lines 113-148: every manifest is parsed
\* into a new Plugin object
Discovered(g) == [n \in Names |-> [name |-> n, gen |-> g]]

\* lines 114-148: self.plugins is emptied first and filled at the end, so a
\* discovery that raises leaves it empty
DiscoverPlugins(g) ==
    IF MacroFilesOk THEN Discovered(g) ELSE [n \in Names |-> NoPlugin]

\* a call PluginManager.discover_plugins() from outside
Discover ==
    /\ pc = "idle"
    /\ gen < MaxApiDiscover
    /\ gen' = gen + 1
    /\ plugins' = DiscoverPlugins(gen + 1)
    /\ err' = IF MacroFilesOk THEN err ELSE "macro_file"
    /\ UNCHANGED << codecVars, katexVars, labelVars, runVars, manifestVars, loaded,
                    loading, code, macros, plugin_macros, running, pc, op, k, stack, histVars,
                    docVars >>

\* PandocPilot.process, lines 225-235: start when not running (start's line
\* 206), otherwise straight to the reset of the loaded code objects
Process ==
    /\ pc = "idle"
    /\ IF running
       THEN /\ docNo < MaxDocs
            /\ op' = "process"
            /\ pc' = "expand"
            /\ docNo' = docNo + 1
            /\ labelState' = ResetAll(labelState, loaded, code)
            /\ labelOp' = [op |-> "reset", out |-> "", open |-> scopes]
            /\ scopes' = 0
            /\ UNCHANGED << gen, plugins, k, err >>
       ELSE /\ gen < MaxGen
            /\ gen' = gen + 1
            /\ plugins' = DiscoverPlugins(gen + 1)
            /\ k' = 1
            /\ IF MacroFilesOk
               THEN op' = "process" /\ pc' = "start" /\ UNCHANGED err
               ELSE op' = "none" /\ pc' = "idle" /\ err' = "macro_file"
            /\ UNCHANGED << docNo, labelState, labelVars >>
    /\ link' = NoLink
    /\ ext' = NoExt
    /\ output' = NoOutput
    /\ UNCHANGED << codecVars, katexVars, manifestVars, loaded, loading, code,
                    macros, plugin_macros, running, stack, histVars, labelDoc, processors >>

\* a start that loads every discovered plugin, auto_load or not
StartStepLoadsAll ==
    /\ pc = "start"
    /\ k <= Len(order)
    /\ k' = k + 1
    /\ IF TRUE
       THEN LET r == Enter(order[k], loaded, loading, << >>) IN
            /\ loaded' = r.loaded
            /\ loading' = r.loading
            /\ stack' = r.stack
            /\ enterCount' = Bump(enterCount, Range(r.loading) \ Range(loading))
            /\ lastCall' = [name |-> order[k], gen |-> gen, out |-> r.out]
            /\ IF r.out = "run" THEN pc' = "load" /\ UNCHANGED << op, err >>
               ELSE IF r.out = "ok" THEN UNCHANGED << pc, op, err >>
               ELSE pc' = "idle" /\ op' = "none" /\ err' = r.out
       ELSE UNCHANGED << loaded, loading, stack, enterCount, lastCall, pc,
                         op, err >>
    /\ UNCHANGED << codecVars, katexVars, labelVars, runVars, manifestVars, gen, plugins, code, macros, plugin_macros, running,
                    loadCount, docVars >>

\* PandocPilot.start, lines 208-210: one iteration over plugins.items()
StartStep ==
    /\ pc = "start"
    /\ k <= Len(order)
    /\ k' = k + 1
    /\ IF auto_load[order[k]]
       THEN LET r == Enter(order[k], loaded, loading, << >>) IN
            /\ loaded' = r.loaded
            /\ loading' = r.loading
            /\ stack' = r.stack
            /\ enterCount' = Bump(enterCount, Range(r.loading) \ Range(loading))
            /\ lastCall' = [name |-> order[k], gen |-> gen, out |-> r.out]
            /\ IF r.out = "run" THEN pc' = "load" /\ UNCHANGED << op, err >>
               ELSE IF r.out = "ok" THEN UNCHANGED << pc, op, err >>
               ELSE pc' = "idle" /\ op' = "none" /\ err' = r.out
       ELSE UNCHANGED << loaded, loading, stack, enterCount, lastCall, pc,
                         op, err >>
    /\ UNCHANGED << codecVars, katexVars, labelVars, runVars, manifestVars, gen, plugins, code, macros, plugin_macros, running,
                    loadCount, docVars >>

\* PandocPilot.start, line 216, and back in process: lines 230-235
StartDone ==
    /\ pc = "start"
    /\ k > Len(order)
    /\ docNo < MaxDocs
    /\ running' = TRUE
    /\ pc' = "expand"
    /\ docNo' = docNo + 1
    /\ labelState' = ResetAll(labelState, loaded, code)
    /\ labelOp' = [op |-> "reset", out |-> "", open |-> scopes]
    /\ scopes' = 0
    /\ UNCHANGED << codecVars, katexVars, runVars, manifestVars, gen, plugins, loaded, loading, code, macros, plugin_macros,
                    stack, err, op, k, histVars, labelDoc, processors >>

\* process line 237: the document calls \@savelabel{l}{num} while its macros
\* are expanded; the table entry is the closure of the label object whose
\* get_macros defined it last
SaveLabel(l, num) ==
    /\ pc = "expand"
    /\ macros["@savelabel"] # NoPlugin
    /\ LET o == macros["@savelabel"] IN
       /\ labelState' = [labelState EXCEPT ![o] = SaveLabelInto(@, l, num)]
       /\ labelDoc' = [labelDoc EXCEPT ![o][l] = docNo]
    /\ UNCHANGED << codecVars, katexVars, labelVars, runVars, manifestVars, gen, plugins, loaded, loading, code, macros, plugin_macros,
                    running, pc, op, k, stack, err, histVars, docNo,
                    processors >>

\* process line 237, the label macros of the document.  The closures in
\* the macro table belong to the label object whose get_macros ran last;
\* an IndexError raised by a macro ends the process call.
LabelMacroStep(call, st, out, raised) ==
    /\ pc = "expand"
    /\ macros["@savelabel"] # NoPlugin
    /\ labelState' = [labelState EXCEPT ![macros["@savelabel"]] = st]
    /\ labelOp' = [op |-> call, out |-> out, open |-> scopes]
    /\ IF raised
       THEN pc' = "idle" /\ op' = "none" /\ err' = "index"
       ELSE UNCHANGED << pc, op, err >>
    /\ UNCHANGED << codecVars, katexVars, runVars, manifestVars, gen, plugins,
                    loaded, loading, code, macros, plugin_macros, running, k, stack, histVars,
                    docNo, labelDoc, processors >>

\* \@pushlabelstack: _push_label_stack, lines 253-254
PushScope ==
    LET st == labelState[macros["@savelabel"]] IN
    /\ macros["@savelabel"] # NoPlugin
    /\ Len(st.label_stack) <= MaxDepth
    /\ LabelMacroStep("push", PushLabelStack(st), "", FALSE)
    /\ scopes' = Opened(scopes)

\* \@poplabelstack: _pop_label_stack, lines 256-257
PopScope ==
    LET st == labelState[macros["@savelabel"]] IN
    /\ macros["@savelabel"] # NoPlugin
    /\ IF st.label_stack = << >>
       THEN LabelMacroStep("pop", st, "error", TRUE)
       ELSE LabelMacroStep("pop", PopLabelStack(st), "", FALSE)
    /\ scopes' = Closed(scopes)

\* \@labeltarget{n}{num}: _label_target, lines 259-264
Mark(num) ==
    LET st == labelState[macros["@savelabel"]] IN
    /\ macros["@savelabel"] # NoPlugin
    /\ IF st.label_stack = << >>
       THEN LabelMacroStep("mark", st, "error", TRUE)
       ELSE LabelMacroStep("mark", LabelTarget(st, num), "", FALSE)
    /\ UNCHANGED scopes

\* \@wraptarget{label}: _wrap_target, lines 266-288
Resolve ==
    LET st == labelState[macros["@savelabel"]] IN
    /\ macros["@savelabel"] # NoPlugin
    /\ LabelMacroStep("resolve", WrapTarget(st).st, WrapTarget(st).out, FALSE)
    /\ UNCHANGED scopes

\* PandocPilot.process, lines 242-249: the converter run from the document
\* to the tree ends with exit status x; the filter list is composed
Compose(x) ==
    /\ pc = "expand"
    /\ ext' = [ext EXCEPT !.tex = x]
    /\ processors' = SortByPriority(Collect(loaded, code))
    /\ pc' = "filter"
    /\ UNCHANGED << codecVars, katexVars, labelVars, link, output, manifestVars,
                    gen, plugins, loaded, loading, code, macros, plugin_macros, running, stack,
                    err, op, k, histVars, docNo, labelState, labelDoc >>

\* PandocPilot.process, lines 251-252: applyJSONFilters parses the tree
\* (json.loads raises on the empty output of a failed run), the filters
\* rewrite the link l and ask the math renderer, which answers m, and the
\* converter run from the tree to HTML ends with exit status h
ApplyFilters(l, m, h) ==
    /\ pc = "filter"
    /\ pc' = "idle"
    /\ op' = "none"
    /\ IF ConvertOut(ext.tex, "json") # "json"
       THEN /\ err' = "json"
            /\ UNCHANGED << link, ext, output >>
       ELSE IF m = "error"
       THEN /\ err' = "math"
            /\ ext' = [ext EXCEPT !.math = m]
            /\ UNCHANGED << link, output >>
       ELSE /\ err' = "none"
            /\ ext' = [ext EXCEPT !.math = m, !.html = h]
            /\ link' = [in |-> l, out |-> ApplyRefs(processors, l, labelState)]
            /\ output' = ConvertOut(h, "html")
    /\ UNCHANGED << codecVars, katexVars, labelVars, manifestVars, gen, plugins,
                    loaded, loading, code, macros, plugin_macros, running, stack, k, histVars,
                    docVars >>

\* PandocPilot.stop, lines 218-223: finalize for the code object of every
\* plugin in loaded, then running = False.  It can be called at any time.
Stop ==
    /\ pc = "idle"
    /\ proc' = FinalizeLoaded(proc, loaded)
    /\ running' = FALSE
    /\ UNCHANGED << codecVars, kt, kin, kout, labelVars, runVars, manifestVars, gen, plugins, loaded, loading, code, macros, plugin_macros,
                    stack, err, op, pc, k, histVars, docVars >>

\* the state after PandocPilot() for the manifests found on disk
Fresh ==
    /\ gen = 0
    /\ plugins = [n \in Names |-> NoPlugin]
    /\ loaded = << >>
    /\ loading = << >>
    /\ code = {}
    /\ macros = [x \in MacroNames |-> NoPlugin]
    /\ plugin_macros = {}
    /\ running = FALSE
    /\ pc = "idle"
    /\ op = "none"
    /\ k = 1
    /\ stack = << >>
    /\ err = "none"
    /\ loadCount = [o \in Objs |-> 0]
    /\ enterCount = [o \in Objs |-> 0]
    /\ lastCall = [name |-> "", gen |-> 0, out |-> "none"]
    /\ processors = << >>
    /\ docNo = 0
    /\ labelState = [o \in LabelObjs |-> NewLabelState]
    /\ labelDoc = [o \in LabelObjs |-> [l \in LabelIds |-> 0]]
    /\ custom_cmds = [c \in CmdNames |-> NoCmd]
    /\ macroBody = NoBody
    /\ use = NoUse
    /\ tree = << >>
    /\ calls = << >>
    /\ cpc = "new"
    /\ labelOp = NoLabelOp
    /\ scopes = 0
    /\ link = NoLink
    /\ ext = NoExt
    /\ output = NoOutput
    /\ kt = [t \in Threads |-> NewCall]
    /\ kin = [buf |-> << >>, pipe |-> << >>]
    /\ kout = << >>
    /\ proc = [g \in 1..MaxRenderers |-> "none"]

\* The orchestrator driven through process and stop, for any manifests.
Init ==
    /\ requires \in Graphs
    /\ auto_load \in [Names -> BOOLEAN]
    /\ order \in DiscoveryOrders
    /\ defect = NoDefect
    /\ macro_files = NoMacroFiles
    /\ Fresh

Next ==
    \/ LoadReq
    \/ LoadFinish
    \/ Process
    \/ StartStep
    \/ StartDone
    \/ Compose("ok")
    \/ ApplyFilters(NoRef, "none", "ok")
    \/ Stop

Spec == Init /\ [][Next]_vars

\* The plugin manager driven directly: discover_plugins and load_plugin
\* requests in any order (start issues such requests for the auto-load names).
InitLoad ==
    /\ requires \in Graphs
    /\ auto_load = [n \in Names |-> FALSE]
    /\ order = << "core", "label", "citation" >>
    /\ defect = NoDefect
    /\ macro_files = NoMacroFiles
    /\ Fresh

NextLoad ==
    \/ Discover
    \/ \E n \in Names : ApiLoad(n)
    \/ LoadReq
    \/ LoadFinish

SpecLoad == InitLoad /\ [][NextLoad]_vars

\* Documents processed by an orchestrator whose manifests resolve: label and
\* citation require core, every plugin is auto-load.
InitDoc ==
    /\ requires = [n \in Names |-> IF n = "core" THEN << >> ELSE << "core" >>]
    /\ auto_load = [n \in Names |-> TRUE]
    /\ order \in DiscoveryOrders
    /\ defect = NoDefect
    /\ macro_files = NoMacroFiles
    /\ Fresh

NextDoc ==
    \/ LoadReq
    \/ LoadFinish
    \/ Process
    \/ StartStep
    \/ StartDone
    \/ \E l \in LabelIds, num \in Nums : SaveLabel(l, num)
    \/ \E x \in Exits : Compose(x)
    \/ \E l \in Links, m \in MathReplies, h \in Exits : ApplyFilters(l, m, h)
    \/ Stop

SpecDoc == InitDoc /\ [][NextDoc]_vars

\* Documents that use the label stack macros, for manifests that resolve.
InitLabel == InitDoc /\ order = << "core", "label", "citation" >>

NextLabel ==
    \/ LoadReq
    \/ LoadFinish
    \/ Process
    \/ StartStep
    \/ StartDone
    \/ PushScope
    \/ PopScope
    \/ \E num \in Nums : Mark(num)
    \/ Resolve
    \/ Compose("ok")
    \/ ApplyFilters(NoRef, "none", "ok")
    \/ Stop

SpecLabel == InitLabel /\ [][NextLabel]_vars

\* The orchestrator started on plugin files of which one reference may be
\* faulty, with and without a required name that is not discovered.
ConfigRequires ==
    {[n \in Names |-> IF n = "core" THEN << >> ELSE << "core" >>],
     [n \in Names |-> CASE n = "core" -> << >>
                        [] n = "label" -> << "core", Ghost >>
                        [] OTHER -> << "core" >>]}

InitConfig ==
    /\ requires \in ConfigRequires
    /\ auto_load \in [Names -> BOOLEAN]
    /\ order \in DiscoveryOrders
    /\ defect \in Defects
    /\ macro_files = NoMacroFiles
    /\ Fresh

SpecConfig == InitConfig /\ [][Next]_vars

\* The orchestrator started, stopped and started again on plugins that
\* bring macro files: label and citation require core, every plugin is
\* auto-load.
InitMacros ==
    /\ requires = [n \in Names |-> IF n = "core" THEN << >> ELSE << "core" >>]
    /\ auto_load = [n \in Names |-> TRUE]
    /\ order \in DiscoveryOrders
    /\ defect = NoDefect
    /\ macro_files \in [Names -> MacroFileChoices]
    /\ Fresh

SpecMacros == InitMacros /\ [][Next]_vars

\* Encoding a custom command, converting the document that uses it, and the
\* decode filter over the converter's tree.
loaderVars == << manifestVars, gen, plugins, loaded, loading, code, macros, plugin_macros,
                 running, pc, op, k, stack, err, histVars, docVars, katexVars,
                 labelVars, runVars >>

\* get_custom_command(cmd, callback, inline, args), lines 61-66
GetCustomCommand(cmd, callback, inline, args) ==
    /\ cpc = "new"
    /\ LET m == CustomCommandMacro(cmd, inline, args) IN
       /\ macroBody' = m
       /\ custom_cmds' = [custom_cmds EXCEPT ![cmd] = CustomCmdEntry(m, callback)]
    /\ cpc' = "encoded"
    /\ UNCHANGED << loaderVars, use, tree, calls >>

\* _custom_command_body(cmd, args, inline) used on its own, lines 42-59: a
\* wrapper for a name that no get_custom_command call entered in custom_cmds
EncodeOnly(cmd, inline, args) ==
    /\ cpc = "new"
    /\ macroBody' = CustomCommandMacro(cmd, inline, args)
    /\ cpc' = "encoded"
    /\ UNCHANGED << loaderVars, custom_cmds, use, tree, calls >>

\* get_custom_env(env, callback, args), lines 68-78
GetCustomEnv(env, callback, args) ==
    /\ cpc = "new"
    /\ LET m == CustomEnvMacro(env, args) IN
       /\ macroBody' = m
       /\ custom_cmds' = [custom_cmds EXCEPT ![env] = CustomCmdEntry(m, callback)]
    /\ cpc' = "encoded"
    /\ UNCHANGED << loaderVars, use, tree, calls >>

\* process lines 237-242: the macro is expanded with the arguments of the
\* document and the converter turns the text into the tree
ExpandAndConvert(argv, keep) ==
    /\ cpc = "encoded"
    /\ use' = [argv |-> argv, keep |-> keep]
    /\ tree' = Document(ConvertWrapper(macroBody, argv, keep))
    /\ cpc' = "tree"
    /\ UNCHANGED << loaderVars, custom_cmds, macroBody, calls >>

\* process line 251: applyJSONFilters with _process_custom_envs
Decode ==
    /\ cpc = "tree"
    /\ LET w == Walk(tree, custom_cmds) IN
       /\ tree' = w.nodes
       /\ calls' = w.calls
       /\ cpc' = IF w.ok THEN "decoded" ELSE "error"
    /\ UNCHANGED << loaderVars, custom_cmds, macroBody, use >>

InitCodec == InitDoc /\ order = << "core", "label", "citation" >>

NextCodec ==
    \/ \E cmd \in CmdNames, cb \in RetKinds, inline \in BOOLEAN, n \in 0..MaxArgs :
           GetCustomCommand(cmd, cb, inline, n)
    \/ \E env \in CmdNames, cb \in RetKinds, n \in 0..MaxArgs :
           GetCustomEnv(env, cb, n)
    \/ \E cmd \in CmdNames, inline \in BOOLEAN, n \in 0..MaxArgs :
           EncodeOnly(cmd, inline, n)
    \/ \E argv \in [1..Supplied(macroBody) -> ArgTexts],
          keep \in IF macroBody.wrap = "Strong" THEN BOOLEAN ELSE {FALSE} :
           ExpandAndConvert(argv, keep)
    \/ Decode

SpecCodec == InitCodec /\ [][NextCodec]_vars

\* convert_latex of KaTeXJSONPlugin, statement by statement, for a thread t.
otherVars == << manifestVars, gen, plugins, loaded, loading, code, macros, plugin_macros,
                running, pc, op, k, stack, err, histVars, docVars, labelVars,
                runVars, codecVars, proc >>

\* line 359: self.proc.stdin.write(json.dumps(data).encode('utf-8'))
KWrite(t) ==
    /\ kt[t].pc \in {"idle", "done"}
    /\ kt[t].n < MaxCalls
    /\ kt' = [kt EXCEPT ![t] = [pc |-> "wrote", got |-> NoReply, n |-> @.n + 1]]
    /\ kin' = [kin EXCEPT !.buf = Append(@, t)]
    /\ UNCHANGED << otherVars, kout >>

\* line 360: self.proc.stdin.write(b'\n')
KNewline(t) ==
    /\ kt[t].pc = "wrote"
    /\ kt' = [kt EXCEPT ![t].pc = "newline"]
    /\ kin' = [kin EXCEPT !.buf = Append(@, Newline)]
    /\ UNCHANGED << otherVars, kout >>

\* line 361: self.proc.stdin.flush() sends all that the buffer holds
KFlush(t) ==
    /\ kt[t].pc = "newline"
    /\ kt' = [kt EXCEPT ![t].pc = "flushed"]
    /\ kin' = [buf |-> << >>, pipe |-> kin.pipe \o kin.buf]
    /\ UNCHANGED << otherVars, kout >>

\* the renderer process: one line read, one line written
Render ==
    /\ \E j \in 1..Len(kin.pipe) : kin.pipe[j] = Newline
    /\ kin' = [kin EXCEPT !.pipe = FirstLine(kin.pipe).rest]
    /\ kout' = Append(kout, Answer(FirstLine(kin.pipe).line))
    /\ UNCHANGED << otherVars, kt >>

\* lines 364-369: the blocking readline, then return or raise
KRead(t) ==
    /\ kt[t].pc = "flushed"
    /\ kout # << >>
    /\ kt' = [kt EXCEPT ![t] = [pc |-> "done", got |-> Head(kout), n |-> @.n]]
    /\ kout' = Tail(kout)
    /\ UNCHANGED << otherVars, kin >>

InitKatex == InitDoc /\ order = << "core", "label", "citation" >>

NextKatex ==
    \/ \E t \in Threads : KWrite(t)
    \/ \E t \in Threads : KNewline(t)
    \/ \E t \in Threads : KFlush(t)
    \/ Render
    \/ \E t \in Threads : KRead(t)

SpecKatex == InitKatex /\ [][NextKatex]_vars

\* The orchestrator and the manager over a plugin directory that holds the
\* renderer's manifest alone (auto_load, no requires).
stopVars == << codecVars, kt, kin, kout, labelVars, runVars, manifestVars,
               plugins, code, macros, plugin_macros, pc, op, k, stack, histVars, labelState,
               labelDoc, processors >>

\* the renderer plugin object of the latest discovery
Renderer(g) == [name |-> Katex, gen |-> g]

\* PluginManager.discover_plugins() called from outside
RendererDiscover ==
    /\ pc = "idle"
    /\ gen < MaxRenderers
    /\ gen' = gen + 1
    /\ UNCHANGED << stopVars, loaded, loading, proc, running, err, docNo >>

\* PluginManager.load_plugin('katex', demacro) called from outside
RendererLoad(fails) ==
    /\ pc = "idle"
    /\ gen > 0
    /\ LET r == LoadRenderer(Renderer(gen), loaded, loading, proc, fails) IN
       /\ loaded' = r.loaded
       /\ loading' = r.loading
       /\ proc' = r.proc
       /\ err' = IF r.out = "ok" THEN "none" ELSE r.out
    /\ UNCHANGED << stopVars, gen, running, docNo >>

\* PandocPilot.process, lines 225-252, with start (lines 204-216) when not
\* running: discovery makes a new plugin object, load_plugin loads it, and
\* an exception of the load leaves start before line 216
RendererProcess(fails) ==
    /\ pc = "idle"
    /\ docNo < MaxDocs
    /\ IF running
       THEN /\ docNo' = docNo + 1
            /\ UNCHANGED << gen, loaded, loading, proc, running, err >>
       ELSE /\ gen < MaxRenderers
            /\ gen' = gen + 1
            /\ LET r == LoadRenderer(Renderer(gen + 1), loaded, loading, proc,
                                     fails)
               IN  /\ loaded' = r.loaded
                   /\ loading' = r.loading
                   /\ proc' = r.proc
                   /\ running' = (r.out = "ok")
                   /\ err' = IF r.out = "ok" THEN "none" ELSE r.out
                   /\ docNo' = IF r.out = "ok" THEN docNo + 1 ELSE docNo
    /\ UNCHANGED stopVars

InitStop == InitKatex

NextStop ==
    \/ RendererDiscover
    \/ \E fails \in BOOLEAN : RendererLoad(fails)
    \/ \E fails \in BOOLEAN : RendererProcess(fails)
    \/ Stop

SpecStop == InitStop /\ [][NextStop]_vars

(***************************************************************************)
(* The requires graph.                                                     *)
(***************************************************************************)
ReqSet(n) == Range(requires[n])

RECURSIVE Closure(_)
Closure(S) ==
    LET T == S \cup {r \in Names : \E q \in S : r \in ReqSet(q)}
    IN  IF T = S THEN S ELSE Closure(T)

\* n and its transitive dependencies among the discovered names
Deps(n) == Closure({n})

OnCycle(n) == \E r \in ReqSet(n) \cap Names : n \in Deps(r)

Acyclic == \A n \in Names : ~OnCycle(n)

AllDiscovered == \A n \in Names : ReqSet(n) \subseteq Names

Occurrences(s, x) == Cardinality({i \in 1..Len(s) : s[i] = x})

CallEnded == lastCall.out \in {"ok", "circular", "unresolved", "load"}

\* the object the last load_plugin request was about, and its generation's
\* object for another name
ObjOf(n, g) == [name |-> n, gen |-> g]

(***************************************************************************)
(* C1.  In an acyclic requires graph whose required names are all          *)
(* discovered, once load_plugin(P) has returned, P and every transitive    *)
(* dependency of P are in loaded, each exactly once and each with exactly  *)
(* one run of its load step; and no plugin object's load step has run more *)
(* than once, however often it was requested.                              *)
(***************************************************************************)
C1_LoadsEveryDependencyOnce ==
    (Acyclic /\ AllDiscovered) =>
        /\ \A o \in Objs : loadCount[o] <= 1
        /\ lastCall.out = "ok" =>
             \A q \in Deps(lastCall.name) :
                 /\ Occurrences(loaded, ObjOf(q, lastCall.gen)) = 1
                 /\ loadCount[ObjOf(q, lastCall.gen)] = 1

\* load_plugin(P) has returned, and a dependency of P was requested through
\* two dependants: it is required by P and by another dependency of P
C1_Witness ==
    /\ Acyclic /\ AllDiscovered
    /\ lastCall.out = "ok"
    /\ pc = "idle"
    /\ Cardinality(Deps(lastCall.name)) = 3
    /\ \E q \in Names : \E d \in Names \ {q, lastCall.name} :
           q \in ReqSet(lastCall.name) /\ q \in ReqSet(d)
    /\ Len(loaded) = 3
    /\ enterCount[ObjOf(lastCall.name, lastCall.gen)] = 1
    /\ err = "none"

(***************************************************************************)
(* C2.  As claimed: a load_plugin request for a plugin on a cycle of the   *)
(* requires graph ends in a circular-dependency error, no plugin of a      *)
(* cycle is in loaded, and every plugin in loaded has run its load step    *)
(* with all of its requires in loaded.                                     *)
(***************************************************************************)
NoCycleMemberLoaded == \A i \in 1..Len(loaded) : ~OnCycle(loaded[i].name)

LoadedAreComplete ==
    \A i \in 1..Len(loaded) :
        /\ loadCount[loaded[i]] = 1
        /\ \A r \in ReqSet(loaded[i].name) :
               r \in Names /\ InSeq(ObjOf(r, loaded[i].gen), loaded)

C2_CycleFailsCircular ==
    (CallEnded /\ OnCycle(lastCall.name)) =>
        /\ lastCall.out = "circular"
        /\ NoCycleMemberLoaded
        /\ LoadedAreComplete

(***************************************************************************)
(* C2, amended.  A load_plugin request for a plugin on a cycle never       *)
(* returns normally: it ends in a circular-dependency error unless the     *)
(* depth-first traversal first meets a required name that is not           *)
(* discovered (unresolved dependency) or a load step that raises, and then *)
(* it ends in that error.  In every case no plugin of a cycle is in loaded *)
(* and every plugin in loaded has run its load step with all of its        *)
(* requires in loaded.                                                     *)
(***************************************************************************)
C2_CycleFails ==
    /\ NoCycleMemberLoaded
    /\ LoadedAreComplete
    /\ (CallEnded /\ OnCycle(lastCall.name)) =>
          /\ lastCall.out # "ok"
          /\ lastCall.out = "unresolved" =>
                \E q \in Deps(lastCall.name) : ~(ReqSet(q) \subseteq Names)
          /\ lastCall.out = "load" =>
                \E q \in Deps(lastCall.name) : CodeNeeded(q) # {}

\* a request for a plugin on a cycle of length two has ended in the
\* circular-dependency error, while a plugin off the cycle is loaded
C2_Witness ==
    /\ CallEnded /\ OnCycle(lastCall.name)
    /\ lastCall.out = "circular"
    /\ err = "circular"
    /\ Len(loading) = 2
    /\ Len(loaded) = 1

(***************************************************************************)
(* C3.  loaded is in dependency order: every plugin in loaded comes after  *)
(* the plugins its requires list names, and a load step starts only when   *)
(* the load steps of all of the plugin's requires have finished.           *)
(***************************************************************************)
DependencyOrder ==
    \A i \in 1..Len(loaded) :
        \A r \in ReqSet(loaded[i].name) :
            \E j \in 1..(i - 1) : loaded[j] = ObjOf(r, loaded[i].gen)

LoadStepAfterRequires ==
    \A o \in Objs :
        loadCount'[o] > loadCount[o] =>
            \A r \in ReqSet(o.name) : InSeq(ObjOf(r, o.gen), loaded)

C3_DependencyOrder == []DependencyOrder /\ [][LoadStepAfterRequires]_vars

\* B.requires = [A]: loading B alone gave loaded == [A, B]
C3_Witness ==
    /\ requires["label"] = << "core" >>
    /\ lastCall = [name |-> "label", gen |-> 1, out |-> "ok"]
    /\ loaded = << ObjOf("core", 1), ObjOf("label", 1) >>

(***************************************************************************)
(* C5.  A plugin object is in at most one of _loading and loaded (and not  *)
(* started otherwise), at most once in each; loaded is terminal; and an    *)
(* object enters _loading at most once, and never once it is loaded.       *)
(***************************************************************************)
LoadStatesDisjoint ==
    /\ Range(loading) \cap Range(loaded) = {}
    /\ \A o \in Objs : Occurrences(loading, o) <= 1 /\ Occurrences(loaded, o) <= 1
    /\ \A o \in Objs : enterCount[o] <= 1

LoadStateMoves ==
    /\ \A o \in Range(loaded) : InSeq(o, loaded')
    /\ \A o \in Range(loading') \ Range(loading) :
           enterCount[o] = 0 /\ ~InSeq(o, loaded)
    /\ \A o \in Range(loaded') \ Range(loaded) : InSeq(o, loading)

C5_LoadStates == []LoadStatesDisjoint /\ [][LoadStateMoves]_vars

\* one plugin loaded, one in progress, one not started
C5_Witness ==
    /\ Len(loaded) = 1
    /\ Len(loading) = 1
    /\ pc = "load"
    /\ \E n \in Names : ~InSeq(plugins[n], loaded) /\ ~InSeq(plugins[n], loading)

(***************************************************************************)
(* C4.  As claimed: over process / stop / process sequences every plugin   *)
(* name has its load step run at most once, and loaded never holds two     *)
(* entries of one name.                                                    *)
(***************************************************************************)
RECURSIVE LoadStepsOfName(_, _)
LoadStepsOfName(n, g) ==
    IF g = 0 THEN 0 ELSE loadCount[ObjOf(n, g)] + LoadStepsOfName(n, g - 1)

C4_LoadedOncePerProcess ==
    \A n \in Names :
        /\ LoadStepsOfName(n, MaxGen) <= 1
        /\ Cardinality({i \in 1..Len(loaded) : loaded[i].name = n}) <= 1

(***************************************************************************)
(* C6.  The list process hands to applyJSONFilters holds exactly the       *)
(* filter entries of the loaded plugins, in ascending priority, entries of *)
(* equal priority in the order of their collection (the order of loaded).  *)
(***************************************************************************)
Position(s, e) == CHOOSE i \in 1..Len(s) : s[i] = e

C6_PipelineOrder ==
    pc = "filter" =>
        LET c == Collect(loaded, code) IN
        /\ Len(processors) = Len(c)
        /\ Range(processors) = Range(c)
        /\ \A i, j \in 1..Len(processors) :
               i < j => processors[i].prio <= processors[j].prio
        /\ \A a, b \in 1..Len(c) :
               (a < b /\ c[a].prio = c[b].prio) =>
                   Position(processors, c[a]) < Position(processors, c[b])

\* the filters were collected in the order 0, 0, -100 and run as -100, then
\* the two of priority 0 in their collection order
C6_Witness ==
    /\ pc = "filter"
    /\ Len(processors) = 3
    /\ LET c == Collect(loaded, code) IN
       /\ << c[1].prio, c[2].prio, c[3].prio >> = << 0, 0, -100 >>
       /\ processors = << c[3], c[1], c[2] >>

(***************************************************************************)
(* C7.  As claimed: whenever the pipeline is composed with the citation,   *)
(* core and label plugins loaded, every citation-table filter comes before *)
(* every decode filter and every decode filter before every label filter.  *)
(***************************************************************************)
FilterNames == {processors[i].fn : i \in 1..Len(processors)}

AllThreeComposed ==
    /\ pc = "filter"
    /\ FilterNames =
         {"_process_citations", "_process_custom_envs", "_process_refs"}

C7_ProducerBeforeConsumer ==
    AllThreeComposed =>
        \A i, j \in 1..Len(processors) :
            /\ (processors[i].fn = "_process_citations"
                /\ processors[j].fn = "_process_custom_envs") => i < j
            /\ (processors[i].fn = "_process_custom_envs"
                /\ processors[j].fn = "_process_refs") => i < j

(***************************************************************************)
(* C7, amended.  Whenever the pipeline is composed with the citation, core *)
(* and label plugins loaded, every citation-table filter (priority -100)   *)
(* comes before every decode filter and every label filter (priority 0);   *)
(* a decode filter comes before a label filter exactly when its core       *)
(* plugin object was loaded before that label plugin object, which holds   *)
(* for the objects of one discovery when label requires core.              *)
(***************************************************************************)
C7_CitationFirstThenLoadOrder ==
    AllThreeComposed =>
        \A i, j \in 1..Len(processors) :
            /\ (processors[i].fn = "_process_citations"
                /\ processors[j].fn # "_process_citations") => i < j
            /\ (processors[i].fn = "_process_custom_envs"
                /\ processors[j].fn = "_process_refs") =>
                   /\ i < j <=> Position(loaded, processors[i].plugin)
                                   < Position(loaded, processors[j].plugin)
                   /\ ("core" \in ReqSet("label")
                       /\ processors[i].plugin.gen = processors[j].plugin.gen)
                         => i < j

\* label requires core; the pipeline is citation filter, decode filter,
\* label filter although citation was loaded last
C7_Witness ==
    /\ AllThreeComposed
    /\ "core" \in ReqSet("label")
    /\ Len(processors) = 3
    /\ loaded[3].name = "citation"
    /\ << processors[1].fn, processors[2].fn, processors[3].fn >> =
         << "_process_citations", "_process_custom_envs", "_process_refs" >>

(***************************************************************************)
(* C8.  Round trip of a custom command: the wrapper the encoder produces   *)
(* for a registered command with N >= 0 arguments, block, environment or   *)
(* inline, converted and decoded, calls the callback exactly once with the *)
(* command name and the N arguments in order, each argument being what the *)
(* converter makes of the argument text on its own (the inline form after  *)
(* the marker pair is removed).                                            *)
(***************************************************************************)
ArgNode(m, a) ==
    IF m.wrap = "Strong" THEN Node("Span", "", Squeeze(ArgTokens(a), TRUE))
    ELSE Item(Squeeze(ArgTokens(a), TRUE))

C8_RoundTrip ==
    (cpc \in {"decoded", "error"} /\ custom_cmds[macroBody.cmd] # NoCmd) =>
        /\ cpc = "decoded"
        /\ calls = << [name |-> << macroBody.cmd >>,
                       args |-> [i \in 1..Supplied(macroBody) |->
                                    ArgNode(macroBody, use.argv[i])]] >>

C8_Witness ==
    /\ cpc = "decoded"
    /\ macroBody.form = "inline"
    /\ macroBody.args = 2
    /\ use.argv = << << >>, << "a", "b" >> >>
    /\ ~use.keep

(***************************************************************************)
(* C9.  As claimed: after the decode filter has run over a tree whose      *)
(* encoded command is registered, the wrapper is replaced by what the      *)
(* callback returned, whatever that is, and the tree holds no sentinel     *)
(* text and no wrapper node.                                               *)
(***************************************************************************)
RECURSIVE HasWrapper(_)
HasWrapper(xs) ==
    \E i \in 1..Len(xs) :
        \/ /\ xs[i].t \in {"BulletList", "Strong"}
           /\ xs[i].c # << >>
           /\ Stringify(xs[i].c[1]) = << INTERRUPT >>
        \/ HasWrapper(xs[i].c)

C9_NoResidualWrapper ==
    cpc = "decoded" =>
        /\ INTERRUPT \notin Range(StringifyAll(tree))
        /\ ~HasWrapper(tree)

(***************************************************************************)
(* C10.  As claimed: when the filters of a document run, the label table   *)
(* read by each link-rewriting filter holds only labels saved while that   *)
(* same document was processed.                                            *)
(***************************************************************************)
C10_LabelTablePerDocument ==
    pc = "filter" =>
        \A i \in 1..Len(processors) :
            processors[i].fn = "_process_refs" =>
                \A l \in LabelIds :
                    labelState[processors[i].plugin].labels[l] # NoNum =>
                        labelDoc[processors[i].plugin][l] = docNo

(***************************************************************************)
(* C11.  Every document pass begins with the label stack equal to one      *)
(* unset entry: after the reset step of a process call the stack of every  *)
(* loaded label object, and of the one whose macros the document calls,    *)
(* is << None >>, whatever the previous documents pushed, popped or marked.*)
(***************************************************************************)
C11_StackResetPerDocument ==
    labelOp.op = "reset" =>
        \A o \in LabelObjs :
            (InSeq(o, loaded) \/ o = macros["@savelabel"]) =>
                labelState[o].label_stack = << NoEntry >>

\* the second document begins after a first one that left scopes open or
\* popped more than it pushed
C11_Witness ==
    /\ labelOp.op = "reset"
    /\ docNo = 2
    /\ labelOp.open # 0
    /\ macros["@savelabel"] # NoPlugin

(***************************************************************************)
(* C12.  In a pass whose pushes and pops nest properly, a resolve call     *)
(* returns the number of the topmost set entry of the stack, the stack     *)
(* holding one entry per open scope and one for the document; it returns   *)
(* empty text exactly when no entry is set, and never raises.              *)
(***************************************************************************)
SetEntries(stk) == {i \in 1..Len(stk) : stk[i] # NoEntry}

C12_ResolveFindsNearestTarget ==
    (pc = "expand" /\ labelOp.op = "resolve" /\ labelOp.open >= 0) =>
        LET stk == labelState[macros["@savelabel"]].label_stack
            S   == SetEntries(stk)
        IN  /\ Len(stk) = labelOp.open + 1
            /\ labelOp.out # "error"
            /\ (S = {}) <=> (labelOp.out = "")
            /\ S # {} => \E i \in S : /\ \A j \in S : j <= i
                                      /\ labelOp.out = stk[i].num

\* a resolve in an inner scope that has no target finds the one of an
\* ancestor scope
C12_Witness ==
    /\ pc = "expand"
    /\ labelOp.op = "resolve"
    /\ labelOp.open = 2
    /\ labelOp.out \in Nums
    /\ LET stk == labelState[macros["@savelabel"]].label_stack
       IN  Len(stk) = 3 /\ stk[3] = NoEntry /\ stk[2] = NoEntry

(***************************************************************************)
(* C13.  As claimed: a pop-scope call without an open push-scope call in   *)
(* the same document pass ends in an error.                                *)
(***************************************************************************)
C13_UnmatchedPopIsError ==
    (labelOp.op = "pop" /\ labelOp.open <= 0) => labelOp.out = "error"

(***************************************************************************)
(* C14.  As claimed: the link-rewriting filter puts the stored number into *)
(* a reference link whose anchor is in the label table, and for an anchor  *)
(* that is not in the table it raises no error and leaves the link as it   *)
(* was.                                                                    *)
(***************************************************************************)
TableInUse == labelState[macros["@savelabel"]].labels

Rewritten == link.in # NoRef /\ Len(link.in.kvs) = 2 /\ macros["@savelabel"] # NoPlugin

Known(ref) == ref \in LabelIds /\ TableInUse[ref] # NoNum

C14_UnknownAnchorLeftUnchanged ==
    Rewritten =>
        LET ref == link.in.kvs[2][2] IN
        /\ err = "none"
        /\ IF Known(ref)
           THEN link.out = [link.in EXCEPT !.text[1].s = TableInUse[ref]]
           ELSE link.out = link.in

(***************************************************************************)
(* C14, amended.  For an anchor that is in the label table the filter puts *)
(* the stored number into the first inline of the link text; for an anchor *)
(* that is not, it raises no error, keeps the attributes and the target of *)
(* the link, and puts the anchor string itself into the first inline of    *)
(* the link text.                                                          *)
(***************************************************************************)
C14_UnknownAnchorBecomesText ==
    Rewritten =>
        LET ref == link.in.kvs[2][2] IN
        /\ err = "none"
        /\ link.out.kvs = link.in.kvs
        /\ link.out.target = link.in.target
        /\ Len(link.out.text) = Len(link.in.text)
        /\ link.out.text[1] = Str(IF Known(ref) THEN TableInUse[ref] ELSE ref)

C14_Witness ==
    /\ Rewritten
    /\ link.in = RefLink("sec:x", "[sec:x]")
    /\ link.out = RefLink("sec:x", "sec:x")
    /\ \E l \in LabelIds : Known(l)

(***************************************************************************)
(* C15.  As claimed: when the math renderer answers with an error object   *)
(* or the structural converter exits abnormally in either conversion step, *)
(* the process call ends in an error and returns no output.                *)
(***************************************************************************)
C15_ExternalErrorIsFatal ==
    (pc = "idle" /\ (ext.tex = "fail" \/ ext.math = "error" \/ ext.html = "fail")) =>
        /\ err # "none"
        /\ output = NoOutput

(***************************************************************************)
(* C16.  Decoding a wrapper whose command name is not in custom_cmds is    *)
(* fatal: the decode filter raises, applyJSONFilters and with it process   *)
(* end there, no callback has been invoked and the tree is not rewritten.  *)
(***************************************************************************)
C16_UnregisteredCommandIsFatal ==
    (cpc \in {"decoded", "error"} /\ custom_cmds[macroBody.cmd] = NoCmd) =>
        /\ cpc = "error"
        /\ calls = << >>
        /\ tree = Document(ConvertWrapper(macroBody, use.argv, use.keep))

C16_Witness ==
    /\ cpc = "error"
    /\ custom_cmds[macroBody.cmd] = NoCmd
    /\ macroBody.form = "inline"
    /\ macroBody.args = 1

(***************************************************************************)
(* C17.  As claimed, for a plugin whose first requires entry is a name     *)
(* that is not discovered: every load_plugin request for it ends in the    *)
(* unresolved-dependency error, its load step has not run and it is not in *)
(* loaded.                                                                 *)
(***************************************************************************)
C17_UnresolvedDependency ==
    (/\ CallEnded
     /\ requires[lastCall.name] # << >>
     /\ requires[lastCall.name][1] = Ghost) =>
        /\ lastCall.out = "unresolved"
        /\ ~InSeq(ObjOf(lastCall.name, lastCall.gen), loaded)
        /\ loadCount[ObjOf(lastCall.name, lastCall.gen)] = 0

(***************************************************************************)
(* C19.  After a successful start, loaded holds exactly the auto-load      *)
(* plugins and what they require, directly or not: each of them is loaded, *)
(* a plugin outside that set is not loaded and its load step has never     *)
(* run, and of two auto-load plugins the one discovered first is loaded    *)
(* first unless the other was loaded before as a dependency.               *)
(***************************************************************************)
AutoNames == {n \in Names : auto_load[n]}

StartSet == Closure(AutoNames)

C19_StartLoadsAutoLoadClosure ==
    running =>
        /\ {n \in Names : InSeq(ObjOf(n, gen), loaded)} = StartSet
        /\ {loaded[i].name : i \in 1..Len(loaded)} = StartSet
        /\ \A n \in Names \ StartSet : \A g \in 1..MaxGen : loadCount[ObjOf(n, g)] = 0
        /\ \A a, b \in AutoNames :
              (/\ IndexOf(order, a) < IndexOf(order, b)
               /\ \A c \in AutoNames :
                     IndexOf(order, c) <= IndexOf(order, a) => b \notin Deps(c)) =>
                  Position(loaded, ObjOf(a, gen)) < Position(loaded, ObjOf(b, gen))

\* an auto-load plugin discovered later was loaded first, as a dependency
\* of one discovered earlier, and the plugin that is not auto-load and that
\* nothing requires was left alone
C19_Witness ==
    /\ running
    /\ StartSet # Names
    /\ \E a, b \in AutoNames :
          /\ IndexOf(order, a) < IndexOf(order, b)
          /\ Position(loaded, ObjOf(b, gen)) < Position(loaded, ObjOf(a, gen))

(***************************************************************************)
(* C20.  A configuration error aborts the start: when an auto-load plugin  *)
(* or one it requires has a requires entry that is not discovered or a     *)
(* code reference that is missing or mismatched, or when any manifest      *)
(* lists a macro file that cannot be located, every start ends in an       *)
(* error, running stays false, and no process call reaches macro           *)
(* expansion, conversion or a returned output.                             *)
(***************************************************************************)
ConfigError ==
    \/ defect.kind = "macro_file"
    \/ defect.kind \in {"code_missing", "code_mismatch"} /\ defect.name \in StartSet
    \/ \E n \in StartSet : Ghost \in ReqSet(n)

C20_ConfigErrorAbortsStart ==
    ConfigError =>
        /\ ~running
        /\ pc \notin {"expand", "filter"}
        /\ docNo = 0
        /\ output = NoOutput
        /\ ext = NoExt
        /\ (pc = "idle" /\ gen > 0) => err \in {"unresolved", "load", "macro_file"}

\* the second attempt to start has failed at a code reference as the first
\* did, after other plugins were loaded
C20_Witness ==
    /\ ConfigError
    /\ defect.kind = "code_mismatch"
    /\ pc = "idle"
    /\ gen = 2
    /\ err = "load"
    /\ loaded # << >>

(***************************************************************************)
(* C18.  As claimed: the math-render adapter has at most one request in    *)
(* flight, whatever the interleaving of the convert_latex calls on one     *)
(* adapter: no request is written while another one is written and its     *)
(* response not yet read, and every call that has read a response has read *)
(* the output for its own request.                                         *)
(***************************************************************************)
InFlight == {t \in Threads : kt[t].pc \in {"wrote", "newline", "flushed"}}

C18_SingleRequestInFlight ==
    /\ Cardinality(InFlight) <= 1
    /\ \A t \in Threads : kt[t].pc = "done" => kt[t].got = t

(***************************************************************************)
(* C21.  An explicit stop finalizes the code object of every loaded plugin *)
(* and sets running to false: when stop returns, every renderer subprocess *)
(* started by any plugin object since the orchestrator was constructed has *)
(* been terminated and waited on; and a process call made while running is *)
(* false goes through start (a new discovery, running true) before the     *)
(* document is expanded.                                                   *)
(***************************************************************************)
StopReleasesAll ==
    Stop => (~running' /\ \A o \in KatexObjs : proc'[o.gen] # "running")

ProcessRestarts ==
    (~running /\ docNo' > docNo) => (gen' = gen + 1 /\ running')

C21_StopReleasesEverySubprocess ==
    [][StopReleasesAll]_vars /\ [][ProcessRestarts]_vars

\* the part of C21 that holds: stop finalizes the code object of everything
\* in loaded and leaves running false
StopFinalizesLoaded ==
    Stop => (~running' /\ \A o \in Range(loaded) \cap KatexObjs :
                              proc'[o.gen] = "terminated")

C21_StopFinalizesLoaded ==
    [][StopFinalizesLoaded]_vars /\ [][ProcessRestarts]_vars

(***************************************************************************)
(* C22.  A circular-dependency error is raised only for a real cycle: a    *)
(* load_plugin request, whatever requests came before it and however they  *)
(* ended, ends in the circular-dependency error only if a plugin on a      *)
(* cycle of the requires graph is reachable from the requested plugin; and *)
(* no plugin is in _loading while no load_plugin call is executing.        *)
(***************************************************************************)
CycleReachable(n) == \E q \in Deps(n) : OnCycle(q)

CircularOnlyForCycle ==
    (CallEnded /\ lastCall.out = "circular") => CycleReachable(lastCall.name)

NothingInProgressWhenIdle == pc = "idle" => loading = << >>

C22_CircularOnlyForRealCycle ==
    CircularOnlyForCycle /\ NothingInProgressWhenIdle

(***************************************************************************)
(* C23.  When a plugin's load step completes, its recorded contribution    *)
(* (Plugin.macros) holds exactly the entries of the shared table whose     *)
(* name the table lacked just before that load step or whose entry is not  *)
(* the identical object the table held then, so a definition that looks    *)
(* the same as the one it replaces counts.  The table just before the load *)
(* step already holds what the plugin's requires brought: the contribution *)
(* has no name that the plugin's own dictionary and macro files leave      *)
(* alone, and it has every name they define anew.                          *)
(***************************************************************************)
LoadStepDone(p) == ~InSeq(p, loaded) /\ InSeq(p, loaded')

OwnNames(p) ==
    MacrosOf(p.name) \cup
    {macro_files[p.name][i].name : i \in 1..Len(macro_files[p.name])}

NewlyDefined(p) ==
    MacrosOf(p.name) \cup
    {macro_files[p.name][i].name :
        i \in {j \in 1..Len(macro_files[p.name]) :
                  macro_files[p.name][j].from = ""}}

ContributionIsDiff(p) ==
    \A x \in MacroNames, e \in Objs :
        << x, e >> \in Contribution(plugin_macros', p) <=>
            /\ macros'[x] = e
            /\ macros[x] = NoPlugin \/ macros[x] # e

NothingOfDependencies(p) ==
    \A it \in Contribution(plugin_macros', p) : it[1] \in OwnNames(p)

RedefinitionCounts(p) ==
    \A x \in NewlyDefined(p) : << x, p >> \in Contribution(plugin_macros', p)

C23_ContributionIsIdentityDiff ==
    [][\A p \in Objs : LoadStepDone(p) =>
            /\ ContributionIsDiff(p)
            /\ NothingOfDependencies(p)
            /\ RedefinitionCounts(p)]_vars

\* after a restart: a second label object has redefined \@savelabel to an
\* entry that looks like the first object's and its macro file has
\* redefined \span of core, both are in its contribution; and the second
\* citation object, whose own file defines nothing, has neither \span nor
\* \title of its dependency core in its contribution
C23_Witness ==
    LET l == ObjOf("label", 2)
        c == ObjOf("citation", 2)
    IN  /\ InSeq(ObjOf("label", 1), loaded)
        /\ InSeq(l, loaded)
        /\ InSeq(c, loaded)
        /\ macro_files["label"] = << NewDef("span") >>
        /\ macro_files["core"] = << NewDef("title") >>
        /\ macro_files["citation"] = << >>
        /\ Contribution(plugin_macros, l) =
              {<< "@savelabel", l >>, << "span", l >>}
        /\ macros["title"] = ObjOf("core", 2)
        /\ Contribution(plugin_macros, c) = {<< "fullcite", c >>}

============================================================================
